---- MODULE Spec2Model ----
(***************************************************************************)
(* Runtime CPU dispatch of the vector class library (easy_dispatch.h).     *)
(*                                                                         *)
(* One build of a program fixes VCL_INSTRSETS (the list of instruction     *)
(* sets the dispatched functions were compiled for); one run fixes the     *)
(* value instrset_detect() returns.  Every logical function 'fun' owns one *)
(* global function pointer vcl_<fun>_ptr, which initially points at the    *)
(* vcl_dispatch instantiation of that function.  Threads call the inline   *)
(* wrapper (VCL_DISPATCH), which reads the pointer and calls through it.   *)
(*                                                                         *)
(* The pointer is a plain (non-atomic) global.  The library is x86 only,   *)
(* where a build stores and loads an aligned pointer with one word-sized   *)
(* move, so a racing load yields the value before or the value after a     *)
(* racing store; both outcomes are covered by interleaving the load and    *)
(* the store as separate steps of the threads.                             *)
(***************************************************************************)
EXTENDS Integers, Sequences, FiniteSets, TLC

\* ------------------------------------------------------------------ bounds
MaxLevel == 3      \* instruction sets in VCL_INSTRSETS are drawn from 1..MaxLevel
MaxLen == 3        \* VCL_INSTRSETS has 1..MaxLen entries
NumThreads == 2    \* calling threads
MaxCalls == 3      \* calls made in one run, over all threads and functions

Threads == 1..NumThreads
Funs == {"myfunc", "otherfunc"}       \* logical functions, each with VCL_DISPATCHER(fun)
Args == {0, 1}                        \* argument values passed by the callers
InstrsetLists == UNION {[1..k -> 1..MaxLevel] : k \in 1..MaxLen}

\* "The list has to be sorted ascendent": the lists of a build that follows
\* the documentation of VCL_INSTRSETS
StrictlyAscending(is) == \A j, k \in 1..Len(is) : j < k => is[j] < is[k]
AscendingLists == {is \in InstrsetLists : StrictlyAscending(is)}
HostLevels == 0..(MaxLevel + 1)       \* values of instrset_detect()

\* ------------------------------------------------------- names and pointers
\* VCL_CONCAT(fun, n): the symbol vcl_<fun>_<n>
VCL_CONCAT(fun, n) == <<"vcl", fun, n>>

\* VCL_DISPATCHED(fun) in the translation unit compiled with INSTRSET = instrset
VCL_DISPATCHED(fun, instrset) == VCL_CONCAT(fun, instrset)

nullptr == <<"nullptr", "", 0>>

\* the address of the vcl_dispatch instantiation that initialises vcl_<fun>_ptr
Dispatcher(fun) == <<"vcl_dispatch", fun, 0>>

\* the instruction set a compiled variant vcl_<fun>_<n> was compiled for
Level(entry) == entry[3]

\* ------------------------------------------------------------ macro lists
VCL_GET_12TH(args) == args[12]

\* poor man's counter: the 12th element of (args, 11, 10, ..., 1, 0)
VCL_COUNT_ARGS(args) == VCL_GET_12TH(args \o <<11, 10, 9, 8, 7, 6, 5, 4, 3, 2, 1, 0>>)

RECURSIVE VCL_FUNLIST_(_, _, _)
\* VCL_FUNLIST_<n>(fun, args): n names, one per leading argument
VCL_FUNLIST_(fun, n, args) ==
    IF n = 1
    THEN <<VCL_CONCAT(fun, Head(args))>>
    ELSE <<VCL_CONCAT(fun, Head(args))>> \o VCL_FUNLIST_(fun, n - 1, Tail(args))

\* the list handed on back to front
VCL_FUNLIST_reversed(fun, n, instrsets) ==
    VCL_FUNLIST_(fun, n, [k \in 1..Len(instrsets) |-> instrsets[Len(instrsets) + 1 - k]])

VCL_FUNLIST(fun, n, instrsets) == VCL_FUNLIST_(fun, n, instrsets)

\* no -DVCL_INSTRSETS=... and no #define before the header is included
NotDefined == <<>>

\* #ifndef VCL_INSTRSETS / #define VCL_INSTRSETS INSTRSET: the list as the
\* translation unit compiled with INSTRSET sees it after the header
VCL_INSTRSETS(given, INSTRSET) == IF given = NotDefined THEN <<INSTRSET>> ELSE given

\* the pack 'fs' that VCL_DISPATCHER_IMPLEMENTATION hands to vcl_dispatch
DispatcherFunctions(fun, instrsets) == VCL_FUNLIST(fun, VCL_COUNT_ARGS(instrsets), instrsets)

\* --------------------------------------------------------------- selection
RECURSIVE vcl_select_strict(_, _, _)
\* variant of vcl_select whose last overload also tests its instruction set
vcl_select_strict(n, fs, is) ==
    IF Len(is) = 1
    THEN IF Head(is) <= n THEN Head(fs) ELSE nullptr
    ELSE LET g == vcl_select_strict(n, Tail(fs), Tail(is))
         IN  IF g # nullptr THEN g
             ELSE IF Head(is) <= n THEN Head(fs)
             ELSE nullptr

RECURSIVE vcl_select_flipped(_, _, _)
\* variant of vcl_select whose last overload tests n <= i
vcl_select_flipped(n, fs, is) ==
    IF Len(is) = 1
    THEN IF n <= Head(is) THEN Head(fs) ELSE nullptr
    ELSE LET g == vcl_select_flipped(n, Tail(fs), Tail(is))
         IN  IF g # nullptr THEN g
             ELSE IF Head(is) <= n THEN Head(fs)
             ELSE nullptr

RECURSIVE vcl_select(_, _, _)
\* vcl_select<T, f, fs...>(n, integer_sequence<int, i, is...>)
vcl_select(n, fs, is) ==
    IF Len(is) = 1
    THEN Head(fs)                         \* single-entry overload: return f
    ELSE LET g == vcl_select(n, Tail(fs), Tail(is))
         IN  IF g # nullptr THEN g
             ELSE IF Head(is) <= n THEN Head(fs)
             ELSE nullptr

\* ------------------------------------------------------------------- state
VARIABLES
    instrsets,   \* VCL_INSTRSETS of the build
    host,        \* the value instrset_detect() returns on this machine
    ptr,         \* ptr[fun]: the global pointer vcl_<fun>_ptr
    pc,          \* pc[t]: where thread t is
    fun,         \* fun[t]: the logical function thread t is calling
    arg,         \* arg[t]: the argument of that call
    callee,      \* callee[t]: the function thread t was transferred to
    via,         \* via[t]: the call of thread t went through vcl_dispatch
    ret,         \* ret[t]: the value the call of thread t returned
    calls,       \* calls[fun]: calls made to fun so far
    selects,     \* selects[fun]: runs of vcl_select for fun so far
    detects,     \* detects[fun]: calls of instrset_detect made for fun so far
    served,      \* served[fun]: the functions that have been entered to serve fun
    trampolined, \* trampolined[fun]: calls that loaded the dispatcher from the slot of fun
    units,       \* the translation units compiled so far, one per INSTRSET
    expansion,   \* the last expansion of VCL_DISPATCHER_IMPLEMENTATION
    lookup       \* the last instantiation of Vec<N, T>

\* what the build and the type tables leave behind; no call touches it
buildvars == <<units, expansion, lookup>>

vars == <<instrsets, host, ptr, pc, fun, arg, callee, via, ret, calls, selects, detects, served,
          trampolined, units, expansion, lookup>>

NoExpansion == [fun |-> "", count |-> 0, funlist |-> <<>>]

NoLookup == [N |-> 0, T |-> "", type |-> "", btype |-> ""]

NoRet == <<0, 0>>

\* the body of a compiled variant: its result depends on the argument, and
\* tells which instruction set produced it (the example prints INSTRSET)
VariantBody(entry, a) == <<Level(entry), a + 1>>

\* a slot left without its initialiser (a zero-initialised global)
InitialPtr_null(f) == nullptr

\* the static initialiser of vcl_<fun>_ptr in VCL_DISPATCHER_IMPLEMENTATION_
InitialPtr(f) == Dispatcher(f)

Start ==
    /\ host \in HostLevels
    /\ ptr = [f \in Funs |-> InitialPtr(f)]
    /\ pc = [t \in Threads |-> "idle"]
    /\ fun = [t \in Threads |-> "myfunc"]
    /\ arg = [t \in Threads |-> 0]
    /\ callee = [t \in Threads |-> nullptr]
    /\ via = [t \in Threads |-> FALSE]
    /\ ret = [t \in Threads |-> NoRet]
    /\ calls = [f \in Funs |-> 0]
    /\ selects = [f \in Funs |-> 0]
    /\ detects = [f \in Funs |-> 0]
    /\ served = [f \in Funs |-> {}]
    /\ trampolined = [f \in Funs |-> 0]
    /\ units = {}
    /\ expansion = NoExpansion
    /\ lookup = NoLookup

\* a build whose VCL_INSTRSETS is sorted as documented, on any machine
Init ==
    /\ instrsets \in AscendingLists
    /\ Start

\* any build: nothing checks the order of VCL_INSTRSETS
InitAnyList ==
    /\ instrsets \in InstrsetLists
    /\ Start

\* the compiled variants linked into the program for fun
Variants(f) == {VCL_CONCAT(f, instrsets[k]) : k \in 1..Len(instrsets)}

\* where control goes when a thread calls through pointer value p
Enter(p, f) ==
    IF p = Dispatcher(f) THEN "vcl_dispatch"
    ELSE IF p \in Variants(f) THEN "variant"
    ELSE "crash"

RECURSIVE Sum(_, _)
Sum(count, S) == IF S = {} THEN 0 ELSE LET x == CHOOSE y \in S : TRUE IN count[x] + Sum(count, S \ {x})

\* a wrapper that selects by itself when it loads the dispatcher from the slot
Call_resolving(t, f, a) ==
    /\ pc[t] \in {"idle", "returned"}
    /\ Sum(calls, Funs) < MaxCalls
    /\ LET p == IF ptr[f] = Dispatcher(f)
                THEN vcl_select(host, DispatcherFunctions(f, instrsets), instrsets)
                ELSE ptr[f]
       IN  /\ ptr' = [ptr EXCEPT ![f] = p]
           /\ callee' = [callee EXCEPT ![t] = p]
           /\ pc' = [pc EXCEPT ![t] = Enter(p, f)]
           /\ served' = [served EXCEPT ![f] = @ \cup {p}]
    /\ calls' = [calls EXCEPT ![f] = @ + 1]
    /\ fun' = [fun EXCEPT ![t] = f]
    /\ arg' = [arg EXCEPT ![t] = a]
    /\ via' = [via EXCEPT ![t] = FALSE]
    /\ ret' = [ret EXCEPT ![t] = NoRet]
    /\ UNCHANGED <<instrsets, host, selects, detects, trampolined, buildvars>>

\* VCL_DISPATCH(fun, a): return vcl_<fun>_ptr(a) -- load the pointer, call it
Call(t, f, a) ==
    /\ pc[t] \in {"idle", "returned"}
    /\ Sum(calls, Funs) < MaxCalls
    /\ calls' = [calls EXCEPT ![f] = @ + 1]
    /\ fun' = [fun EXCEPT ![t] = f]
    /\ arg' = [arg EXCEPT ![t] = a]
    /\ callee' = [callee EXCEPT ![t] = ptr[f]]
    /\ via' = [via EXCEPT ![t] = (ptr[f] = Dispatcher(f))]
    /\ ret' = [ret EXCEPT ![t] = NoRet]
    /\ pc' = [pc EXCEPT ![t] = Enter(ptr[f], f)]
    /\ served' = [served EXCEPT ![f] = IF ptr[f] = Dispatcher(f) THEN @ ELSE @ \cup {ptr[f]}]
    /\ trampolined' = [trampolined EXCEPT ![f] = IF ptr[f] = Dispatcher(f) THEN @ + 1 ELSE @]
    /\ UNCHANGED <<instrsets, host, ptr, selects, detects, buildvars>>

\* a dispatcher whose instantiations share one slot
StoreSlot_shared(p, f, v) == [g \in DOMAIN p |-> v]

\* a dispatcher that puts its own address back when the slot is already resolved
StoreSlot_reset(p, f, v) == [p EXCEPT ![f] = IF @ = v THEN <<"vcl_dispatch", f, 0>> ELSE v]

\* a dispatcher that forgets the assignment
StoreSlot_skip(p, f, v) == p

\* the assignment to the template parameter 'T * & ptr' bound to vcl_<fun>_ptr
StoreSlot(p, f, v) == [p EXCEPT ![f] = v]

\* a dispatcher that forwards the first call to the first function of the pack
Forwarded_first(selected, fs) == Head(fs)

\* 'f' in 'return f(std::forward<A>(a) ...)'.  vcl_dispatch declares no 'f';
\* its comment defines it: "the current call is forwarded to the selected
\* implementation 'f'", i.e. the value just assigned to ptr.
Forwarded(selected, fs) == selected

\* vcl_select<T, fs...>(instrset_detect(), Instrsets()) as vcl_dispatch of f calls it
Selected(f) == vcl_select(host, DispatcherFunctions(f, instrsets), instrsets)

\* vcl_dispatch: ptr = vcl_select<T, fs...>(instrset_detect(), Instrsets());
\*               return f(std::forward<A>(a)...)   -- enters f
Dispatch(t) ==
    /\ pc[t] = "vcl_dispatch"
    /\ LET f == fun[t]
           fs == DispatcherFunctions(f, instrsets)
           selected == Selected(f)
           target == Forwarded(selected, fs)
       IN  /\ detects' = [detects EXCEPT ![f] = @ + 1]
           /\ selects' = [selects EXCEPT ![f] = @ + 1]
           /\ ptr' = StoreSlot(ptr, f, selected)
           /\ callee' = [callee EXCEPT ![t] = target]
           /\ pc' = [pc EXCEPT ![t] = IF target \in Variants(f) THEN "variant" ELSE "crash"]
           /\ served' = [served EXCEPT ![f] = @ \cup {target}]
    /\ UNCHANGED <<instrsets, host, fun, arg, via, ret, calls, trampolined, buildvars>>

\* the compiled variant runs and returns its result to the caller (what its
\* instructions do on a machine without its instruction set is not part of
\* the dispatcher; the level of the entered variant is kept in callee)
Variant(t) ==
    /\ pc[t] = "variant"
    /\ ret' = [ret EXCEPT ![t] = VariantBody(callee[t], arg[t])]
    /\ pc' = [pc EXCEPT ![t] = "returned"]
    /\ UNCHANGED <<instrsets, host, ptr, fun, arg, callee, via, calls, selects, detects, served,
                   trampolined, buildvars>>

Next ==
    \/ \E t \in Threads, f \in Funs, a \in Args : Call(t, f, a)
    \/ \E t \in Threads : Dispatch(t)
    \/ \E t \in Threads : Variant(t)

Spec == Init /\ [][Next]_vars

\* The runs checked for termination.  Every thread that is inside a call keeps
\* running: no step of a call waits for anything, so the scheduler's fairness
\* towards a thread is fairness towards its next step; no thread is obliged to
\* start a call.  The argument of a call has no part in its control flow, so
\* these runs pass the same argument in every call.
NextFair ==
    \/ \E t \in Threads, f \in Funs : Call(t, f, 0)
    \/ \E t \in Threads : Dispatch(t)
    \/ \E t \in Threads : Variant(t)

SpecFair ==
    /\ Init
    /\ [][NextFair]_vars
    /\ \A t \in Threads : WF_vars(Dispatch(t)) /\ WF_vars(Variant(t))

\* single-threaded use: only thread 1 ever calls
NextSingle ==
    \/ \E f \in Funs, a \in Args : Call(1, f, a)
    \/ Dispatch(1)
    \/ Variant(1)

SpecSingle == InitAnyList /\ [][NextSingle]_vars

TypeOK ==
    /\ instrsets \in InstrsetLists
    /\ host \in HostLevels
    /\ pc \in [Threads -> {"idle", "vcl_dispatch", "variant", "returned", "crash"}]
    /\ fun \in [Threads -> Funs]
    /\ arg \in [Threads -> Args]
    /\ via \in [Threads -> BOOLEAN]
    /\ calls \in [Funs -> 0..MaxCalls]

\* ------------------------------------------------------------- the build
\* VCL_GET_1ST_(N, ...) N
VCL_GET_1ST_(args) == Head(args)

\* VCL_GET_1ST(SET): the first entry of SET; the spacer '_' keeps the rest non-empty
VCL_GET_1ST(SET) == VCL_GET_1ST_(SET \o <<"_">>)

\* a header that implements the dispatcher in the unit of the last instruction set
DispatcherImplementedHere_last(given, INSTRSET) ==
    LET is == VCL_INSTRSETS(given, INSTRSET) IN INSTRSET = is[Len(is)]

\* #if INSTRSET == VCL_GET_1ST(VCL_INSTRSETS): VCL_DISPATCHER_IMPLEMENTED_HERE is defined
DispatcherImplementedHere(given, INSTRSET) ==
    INSTRSET = VCL_GET_1ST(VCL_INSTRSETS(given, INSTRSET))

\* VCL_DISPATCHER_IMPLEMENTATION(fun): the extern declarations of the variants
\* and the definition of vcl_<fun>_ptr, initialised with the vcl_dispatch
\* instantiation over integer_sequence<int, VCL_INSTRSETS> and the variants
VCL_DISPATCHER_IMPLEMENTATION(f, is) ==
    [fun |-> f, count |-> VCL_COUNT_ARGS(is), funlist |-> DispatcherFunctions(f, is)]

\* VCL_DISPATCHER(fun) in the unit compiled with INSTRSET: the implementation
\* where the dispatcher is implemented, nothing elsewhere
VCL_DISPATCHER(f, given, INSTRSET) ==
    IF DispatcherImplementedHere(given, INSTRSET)
    THEN {VCL_DISPATCHER_IMPLEMENTATION(f, VCL_INSTRSETS(given, INSTRSET))}
    ELSE {}

\* the translation unit of the example compiled with INSTRSET: every logical
\* function has its VCL_DISPATCHED definition and its VCL_DISPATCHER line
TranslationUnit(given, INSTRSET) ==
    [INSTRSET |-> INSTRSET,
     implemented_here |-> DispatcherImplementedHere(given, INSTRSET),
     variants |-> {VCL_DISPATCHED(f, INSTRSET) : f \in Funs},
     dispatchers |-> UNION {VCL_DISPATCHER(f, given, INSTRSET) : f \in Funs}]

\* the build compiles the source once more, for an instruction set it has not
\* been compiled for; without VCL_INSTRSETS there is one unit only
CompileUnit(INSTRSET) ==
    /\ \A u \in units : u.INSTRSET # INSTRSET
    /\ instrsets = NotDefined => units = {}
    /\ units' = units \cup {TranslationUnit(instrsets, INSTRSET)}
    /\ UNCHANGED <<instrsets, host, ptr, pc, fun, arg, callee, via, ret, calls, selects, detects,
                   served, trampolined, expansion, lookup>>

\* a build with any VCL_INSTRSETS, or none
InitBuild ==
    /\ instrsets \in InstrsetLists \cup {NotDefined}
    /\ Start

NextBuild == \E INSTRSET \in 1..MaxLevel : CompileUnit(INSTRSET)

SpecBuild == InitBuild /\ [][NextBuild]_vars

\* ------------------------------------------------------- macro expansion
\* VCL_FUNLIST_1 .. VCL_FUNLIST_11 and the 11 counted places of VCL_COUNT_ARGS
MaxArgs == 11

\* the greatest value of enum class instrset
LastInstrset == 10

RECURSIVE Ascending(_)
\* the levels of S written in ascending order
Ascending(S) ==
    IF S = {}
    THEN <<>>
    ELSE LET least == CHOOSE n \in S : \A m \in S : n <= m
         IN  <<least>> \o Ascending(S \ {least})

\* the lists a build can define: every ascending list of instruction sets, of
\* 1 to 11 entries, and every short list in any order
MacroLists ==
    {Ascending(S) : S \in (SUBSET (0..LastInstrset)) \ {{}}}
        \cup {is \in InstrsetLists : Len(is) >= 1}

\* the preprocessor expands VCL_DISPATCHER_IMPLEMENTATION(f)
ExpandDispatcher(f) ==
    /\ expansion' = VCL_DISPATCHER_IMPLEMENTATION(f, instrsets)
    /\ UNCHANGED <<instrsets, host, ptr, pc, fun, arg, callee, via, ret, calls, selects, detects,
                   served, trampolined, units, lookup>>

InitMacro ==
    /\ instrsets \in MacroLists
    /\ Start

NextMacro == \E f \in Funs : ExpandDispatcher(f)

SpecMacro == InitMacro /\ [][NextMacro]_vars

\* ---------------------------------------------------------- vector types
\* the element counts and element types the wrappers of vector.h range over
ElementCounts == {2, 4, 8, 16, 32, 64}

ElementTypes == {"int8_t", "uint8_t", "int16_t", "uint16_t", "int32_t", "uint32_t",
                 "int64_t", "uint64_t", "float", "double"}

\* bits of an element type (<stdint.h>; float and double are IEEE single and double)
BitsOf == [int8_t |-> 8, uint8_t |-> 8, int16_t |-> 16, uint16_t |-> 16, int32_t |-> 32,
           uint32_t |-> 32, int64_t |-> 64, uint64_t |-> 64, float |-> 32, double |-> 64]

\* the unsigned integer type of the same width (<stdint.h>)
UnsignedOf == [int8_t |-> "uint8_t", int16_t |-> "uint16_t", int32_t |-> "uint32_t",
               int64_t |-> "uint64_t"]

\* Vec_N_T, table 2.1, 128 total bits: <<N, T, type>>
Vec_N_T_128 ==
    {<<16, "int8_t", "Vec16c">>,
     <<16, "uint8_t", "Vec16uc">>,
     <<8, "int16_t", "Vec8s">>,
     <<8, "uint16_t", "Vec8us">>,
     <<4, "int32_t", "Vec4i">>,
     <<4, "uint32_t", "Vec4ui">>,
     <<2, "int64_t", "Vec2q">>,
     <<2, "uint64_t", "Vec2uq">>}

\* the 256 bit section with a specialization that names the 128 bit type
Vec_N_T_256_dup ==
    {<<32, "int8_t", "Vec32c">>,
     <<32, "uint8_t", "Vec32uc">>,
     <<16, "int16_t", "Vec16s">>,
     <<16, "uint16_t", "Vec16us">>,
     <<8, "int32_t", "Vec4i">>,
     <<8, "uint32_t", "Vec8ui">>,
     <<4, "int64_t", "Vec4q">>,
     <<4, "uint64_t", "Vec4uq">>}

\* Vec_N_T, table 2.1, 256 total bits
Vec_N_T_256 ==
    {<<32, "int8_t", "Vec32c">>,
     <<32, "uint8_t", "Vec32uc">>,
     <<16, "int16_t", "Vec16s">>,
     <<16, "uint16_t", "Vec16us">>,
     <<8, "int32_t", "Vec8i">>,
     <<8, "uint32_t", "Vec8ui">>,
     <<4, "int64_t", "Vec4q">>,
     <<4, "uint64_t", "Vec4uq">>}

\* Vec_N_T, table 2.1, 512 total bits
Vec_N_T_512 ==
    {<<64, "int8_t", "Vec64c">>,
     <<64, "uint8_t", "Vec64uc">>,
     <<32, "int16_t", "Vec32s">>,
     <<32, "uint16_t", "Vec32us">>,
     <<16, "int32_t", "Vec16i">>,
     <<16, "uint32_t", "Vec16ui">>,
     <<8, "int64_t", "Vec8q">>,
     <<8, "uint64_t", "Vec8uq">>}

\* Vec_N_T, table 2.2, floating point vectors
Vec_N_T_float ==
    {<<4, "float", "Vec4f">>,
     <<2, "double", "Vec2d">>,
     <<8, "float", "Vec8f">>,
     <<4, "double", "Vec4d">>,
     <<16, "float", "Vec16f">>,
     <<8, "double", "Vec8d">>}

\* all explicit specializations of Vec_N_T
Vec_N_T == Vec_N_T_128 \cup Vec_N_T_256 \cup Vec_N_T_512 \cup Vec_N_T_float

\* the boolean table with a type of its own for one unsigned key
Vec_N_b_unsigned ==
    {<<16, "int8_t", "Vec16cb">>,
     <<16, "uint8_t", "Vec16cb">>,
     <<8, "int16_t", "Vec8sb">>,
     <<8, "uint16_t", "Vec8usb">>,
     <<4, "int32_t", "Vec4ib">>,
     <<4, "uint32_t", "Vec4ib">>,
     <<2, "int64_t", "Vec2qb">>,
     <<2, "uint64_t", "Vec2qb">>,
     <<32, "int8_t", "Vec32cb">>,
     <<32, "uint8_t", "Vec32cb">>,
     <<16, "int16_t", "Vec16sb">>,
     <<16, "uint16_t", "Vec16sb">>,
     <<8, "int32_t", "Vec8ib">>,
     <<8, "uint32_t", "Vec8ib">>,
     <<4, "int64_t", "Vec4qb">>,
     <<4, "uint64_t", "Vec4qb">>,
     <<64, "int8_t", "Vec64cb">>,
     <<64, "uint8_t", "Vec64cb">>,
     <<32, "int16_t", "Vec32sb">>,
     <<32, "uint16_t", "Vec32sb">>,
     <<16, "int32_t", "Vec16ib">>,
     <<16, "uint32_t", "Vec16ib">>,
     <<8, "int64_t", "Vec8qb">>,
     <<8, "uint64_t", "Vec8qb">>,
     <<4, "float", "Vec4fb">>,
     <<2, "double", "Vec2db">>,
     <<8, "float", "Vec8fb">>,
     <<4, "double", "Vec4db">>,
     <<16, "float", "Vec16fb">>,
     <<8, "double", "Vec8db">>}

\* Vec_N_b, table 2.3, boolean vectors: <<N, For_use_with, type>>
Vec_N_b ==
    {<<16, "int8_t", "Vec16cb">>,
     <<16, "uint8_t", "Vec16cb">>,
     <<8, "int16_t", "Vec8sb">>,
     <<8, "uint16_t", "Vec8sb">>,
     <<4, "int32_t", "Vec4ib">>,
     <<4, "uint32_t", "Vec4ib">>,
     <<2, "int64_t", "Vec2qb">>,
     <<2, "uint64_t", "Vec2qb">>,
     <<32, "int8_t", "Vec32cb">>,
     <<32, "uint8_t", "Vec32cb">>,
     <<16, "int16_t", "Vec16sb">>,
     <<16, "uint16_t", "Vec16sb">>,
     <<8, "int32_t", "Vec8ib">>,
     <<8, "uint32_t", "Vec8ib">>,
     <<4, "int64_t", "Vec4qb">>,
     <<4, "uint64_t", "Vec4qb">>,
     <<64, "int8_t", "Vec64cb">>,
     <<64, "uint8_t", "Vec64cb">>,
     <<32, "int16_t", "Vec32sb">>,
     <<32, "uint16_t", "Vec32sb">>,
     <<16, "int32_t", "Vec16ib">>,
     <<16, "uint32_t", "Vec16ib">>,
     <<8, "int64_t", "Vec8qb">>,
     <<8, "uint64_t", "Vec8qb">>,
     <<4, "float", "Vec4fb">>,
     <<2, "double", "Vec2db">>,
     <<8, "float", "Vec8fb">>,
     <<4, "double", "Vec4db">>,
     <<16, "float", "Vec16fb">>,
     <<8, "double", "Vec8db">>}

\* the primary templates are declared and never defined: a key without an
\* explicit specialization names an incomplete type and has no member 'type'
Incomplete == "incomplete"

\* typename table<N, T>::type
TypeOf(table, N, T) ==
    IF \E e \in table : e[1] = N /\ e[2] = T
    THEN (CHOOSE e \in table : e[1] = N /\ e[2] = T)[3]
    ELSE Incomplete

\* template <size_t elements_per_vector, typename T> using Vec = Vec_N_T<...>::type
Vec(N, T) == TypeOf(Vec_N_T, N, T)

\* a translation unit names Vec<N, T> (and the boolean vector for the same key)
Instantiate(N, T) ==
    /\ lookup' = [N |-> N, T |-> T, type |-> Vec(N, T), btype |-> TypeOf(Vec_N_b, N, T)]
    /\ UNCHANGED <<instrsets, host, ptr, pc, fun, arg, callee, via, ret, calls, selects, detects,
                   served, trampolined, units, expansion>>

InitVec ==
    /\ instrsets = NotDefined
    /\ Start

NextVec == \E N \in ElementCounts, T \in ElementTypes : Instantiate(N, T)

SpecVec == InitVec /\ [][NextVec]_vars

\* ------------------------------------------------- vocabulary of the claims
\* the instruction sets of the list that the machine supports
SupportedLevels == {instrsets[k] : k \in {j \in 1..Len(instrsets) : instrsets[j] <= host}}

AllLevels == {instrsets[k] : k \in 1..Len(instrsets)}

Greatest(S) == CHOOSE l \in S : \A m \in S : m <= l

Least(S) == CHOOSE l \in S : \A m \in S : l <= m

\* the machine is below every instruction set of the list
HostBelowAll == \A l \in AllLevels : host < l

Resolved(f) == ptr[f] \in Variants(f)

\* thread t is inside, or back from, a compiled variant
Entered(t) == pc[t] \in {"variant", "returned"}

\* C1: once vcl_dispatch has run for a function on a machine that supports at
\* least one instruction set of the ascending list, the selection it stored is
\* the variant of the greatest instruction set that is <= the detected one.
C1_SelectsGreatestSupported ==
    \A f \in Funs :
        (StrictlyAscending(instrsets) /\ SupportedLevels # {} /\ selects[f] > 0)
            => ptr[f] = VCL_CONCAT(f, Greatest(SupportedLevels))

\* C2: when the detected instruction set is at least the lowest of the list,
\* the variant the first call stores in the slot and enters was compiled for
\* an instruction set <= the detected one.
C2_NeverAboveHost ==
    \A t \in Threads :
        (host >= Least(AllLevels) /\ via[t] /\ Entered(t))
            => (Level(callee[t]) <= host /\ Level(ptr[fun[t]]) <= host)

\* C3: when the detected instruction set is below every instruction set of the
\* ascending list, the selection vcl_dispatch stored is the first (lowest)
\* variant of the list.
C3_FallsBackToLowest ==
    \A f \in Funs :
        (StrictlyAscending(instrsets) /\ HostBelowAll /\ selects[f] > 0)
            => ptr[f] = VCL_CONCAT(f, instrsets[1])

\* C4: when the detected instruction set is below the least instruction set of
\* the list, a call ends in vcl_dispatch_exception and no variant is entered:
\* every thread is idle, still inside vcl_dispatch, or has thrown.
C4_ThrowsBelowLeast ==
    \A t \in Threads :
        HostBelowAll => pc[t] \in {"idle", "vcl_dispatch", "vcl_dispatch_exception"}

\* C5: the slot of every function always holds its dispatcher or one of the
\* compiled variants of the list (never null, never anything else), and a slot
\* that holds a variant never holds the dispatcher again.
C5_SlotValidAndNeverReverts ==
    /\ [](\A f \in Funs : ptr[f] = Dispatcher(f) \/ Resolved(f))
    /\ [][\A f \in Funs : Resolved(f) => (ptr[f])' # Dispatcher(f)]_vars

\* a slot is resolved while another thread, which had read the dispatcher
\* from it, is still about to store into it
C5_Witness ==
    \E t \in Threads :
        /\ pc[t] = "vcl_dispatch"
        /\ Resolved(fun[t])
        /\ HostBelowAll

C7_SlotHoldsSelectedAfterReturn ==
    \A t \in Threads :
        (pc[t] = "returned" /\ via[t]) => ptr[fun[t]] = Selected(fun[t])

\* one first call has returned while a racing first call of the same function
\* is still inside vcl_dispatch
C7_Witness ==
    \E t, u \in Threads :
        /\ pc[t] = "returned" /\ via[t]
        /\ pc[u] = "vcl_dispatch" /\ fun[u] = fun[t]

\* C8: with one calling thread, vcl_select and instrset_detect run at most
\* once per function, only the first call of a function goes through
\* vcl_dispatch, and all calls of a function are served by one variant.
C8_SelectsOnceSingleThreaded ==
    \A f \in Funs :
        /\ selects[f] <= 1
        /\ detects[f] <= 1
        /\ Cardinality(served[f]) <= 1
        /\ \A t \in Threads :
               (pc[t] # "idle" /\ fun[t] = f /\ calls[f] >= 2)
                   => (~via[t] /\ (Entered(t) => callee[t] = Selected(f)))

\* a third call of one function has returned after a single selection
C8_Witness ==
    \E f \in Funs :
        /\ calls[f] = 3
        /\ selects[f] = 1
        /\ pc[1] = "returned" /\ fun[1] = f

AllThreadsDone == \A t \in Threads : pc[t] \in {"idle", "returned"}

C10_SelectionNeverNull ==
    \A f \in Funs :
        /\ Selected(f) # nullptr
        /\ Selected(f) \in Variants(f)
        /\ selects[f] > 0 => (ptr[f] # nullptr /\ ptr[f] \in Variants(f))

\* vcl_dispatch has run on a machine below every instruction set of a list of
\* two or more entries that is not sorted
C10_Witness ==
    /\ HostBelowAll
    /\ Len(instrsets) >= 2
    /\ ~StrictlyAscending(instrsets)
    /\ selects["myfunc"] > 0
    /\ Resolved("myfunc")

\* C11: for a list with a single entry vcl_select returns that entry for every
\* detected instruction set, also one below the entry, and vcl_dispatch stores
\* it; the same holds for the list a single dispatch build gets by default
\* (VCL_INSTRSETS = INSTRSET), where the entry is the unit's own variant.
C11_SingleEntryAlwaysSelected ==
    \A f \in Funs :
        /\ Len(instrsets) = 1
               => /\ Selected(f) = VCL_CONCAT(f, instrsets[1])
                  /\ selects[f] > 0 => ptr[f] = VCL_CONCAT(f, instrsets[1])
        /\ \A INSTRSET \in 1..MaxLevel :
               LET is == VCL_INSTRSETS(NotDefined, INSTRSET)
               IN  vcl_select(host, DispatcherFunctions(f, is), is) = VCL_DISPATCHED(f, INSTRSET)

\* vcl_dispatch has run for a single-entry list on a machine below that entry
C11_Witness ==
    /\ Len(instrsets) = 1
    /\ host < instrsets[1]
    /\ selects["myfunc"] > 0
    /\ ptr["myfunc"] = VCL_CONCAT("myfunc", instrsets[1])

\* C12: for an ascending list the level of the selected variant never
\* decreases when the detected instruction set increases.
C12_SelectionMonotone ==
    \A f \in Funs :
        StrictlyAscending(instrsets)
            => \A n1, n2 \in HostLevels :
                   n1 <= n2
                       => Level(vcl_select(n1, DispatcherFunctions(f, instrsets), instrsets))
                              <= Level(vcl_select(n2, DispatcherFunctions(f, instrsets), instrsets))

\* vcl_dispatch has run for an ascending list of two or more entries on a
\* machine that lies between its lowest and its highest instruction set
C12_Witness ==
    /\ StrictlyAscending(instrsets)
    /\ Len(instrsets) >= 2
    /\ instrsets[1] <= host
    /\ host < instrsets[Len(instrsets)]
    /\ selects["myfunc"] > 0
    /\ Resolved("myfunc")

\* the units compiled for the instruction sets of the list
ListUnits == {u \in units : u.INSTRSET \in AllLevels}

\* the logical functions whose slot vcl_<fun>_ptr unit u defines
SlotsDefined(u) == {d.fun : d \in u.dispatchers}

\* C13: among the units compiled for the instruction sets of an ascending
\* list, the unit of the first entry, and no other, defines
\* VCL_DISPATCHER_IMPLEMENTED_HERE and expands VCL_DISPATCHER into the slot
\* definitions; the others expand it to nothing; once every instruction set of
\* the list is compiled exactly one unit implements the dispatcher.  Without
\* VCL_INSTRSETS the single unit implements it.
C13_OneUnitImplementsDispatcher ==
    /\ (instrsets # NotDefined /\ StrictlyAscending(instrsets))
           => /\ \A u \in ListUnits :
                     /\ u.implemented_here <=> u.INSTRSET = instrsets[1]
                     /\ SlotsDefined(u) = IF u.INSTRSET = instrsets[1] THEN Funs ELSE {}
              /\ AllLevels \subseteq {u.INSTRSET : u \in units}
                     => Cardinality({u \in ListUnits : u.implemented_here}) = 1
    /\ instrsets = NotDefined
           => \A u \in units : u.implemented_here /\ SlotsDefined(u) = Funs

\* every instruction set of an ascending list of two or more entries has been compiled
C13_Witness ==
    /\ instrsets # NotDefined
    /\ StrictlyAscending(instrsets)
    /\ Len(instrsets) >= 2
    /\ AllLevels = {u.INSTRSET : u \in units}

\* C14: a step of the wrapper (the start of a call) loads the slot and enters
\* the value it loaded: it changes neither the slot nor the number of runs of
\* vcl_select and instrset_detect.  A slot changes only in a step in which a
\* thread leaves vcl_dispatch for that function, and a resolved slot does not
\* change at all.
C14_WrapperOnlyReads ==
    [][/\ calls' # calls
           => /\ ptr' = ptr /\ selects' = selects /\ detects' = detects
              /\ \A t \in Threads : pc'[t] # pc[t] => callee'[t] = ptr[fun'[t]]
       /\ \A f \in Funs :
              /\ ptr'[f] # ptr[f]
                     => \E t \in Threads :
                            pc[t] = "vcl_dispatch" /\ fun[t] = f /\ pc'[t] # "vcl_dispatch"
              /\ Resolved(f) => ptr'[f] = ptr[f]]_vars

\* a call that loaded a variant from a resolved slot is running that variant
C14_Witness ==
    \E t \in Threads : pc[t] = "variant" /\ ~via[t] /\ callee[t] = ptr[fun[t]] /\ Resolved(fun[t])

\* C15: a step of a call to one logical function (its start, its run through
\* vcl_dispatch, its variant) leaves the slot of every other logical function
\* unchanged.
C15_OtherSlotsUnchanged ==
    [][\A t \in Threads :
           pc'[t] # pc[t] => \A g \in Funs \ {fun'[t]} : ptr'[g] = ptr[g]]_vars

\* one function is resolved after a call, while the other, not resolved yet,
\* has a call inside vcl_dispatch
C15_Witness ==
    \E t, u \in Threads :
        /\ pc[t] = "returned" /\ Resolved(fun[t])
        /\ pc[u] = "vcl_dispatch" /\ fun[u] # fun[t] /\ ptr[fun[u]] = Dispatcher(fun[u])

\* C16: every run of vcl_dispatch for a function leaves the same value in the
\* slot: a run that finds the slot resolved leaves it as it is, and once no
\* call is in progress the slot of a called function holds the selection for
\* the detected instruction set, however many runs there were.
C16_WritesIdempotent ==
    /\ [][\A f \in Funs : (selects'[f] # selects[f] /\ Resolved(f)) => ptr'[f] = ptr[f]]_vars
    /\ [](\A f \in Funs :
              /\ selects[f] > 0 => ptr[f] = Selected(f)
              /\ (AllThreadsDone /\ calls[f] > 0) => (selects[f] >= 1 /\ ptr[f] = Selected(f)))

\* two runs of vcl_dispatch for one function have stored into its slot
C16_Witness ==
    \E f \in Funs : selects[f] >= 2 /\ AllThreadsDone /\ Resolved(f)

\* C17: under fair scheduling every call that has started returns, so that,
\* the calls of a run being finitely many, from some point on no thread is
\* inside a call; a thread inside a call can always take its next step,
\* whatever the other threads do; and the slot of a function that has been
\* called on a machine that supports an instruction set of the list is
\* resolved from some point on for ever.
C17_EveryCallTerminates ==
    /\ <>[](/\ AllThreadsDone
            /\ \A f \in Funs : (calls[f] > 0 /\ SupportedLevels # {}) => Resolved(f))
    /\ [](\A t \in Threads :
              /\ pc[t] = "vcl_dispatch" => ENABLED Dispatch(t)
              /\ pc[t] = "variant" => ENABLED Variant(t)
              /\ pc[t] # "crash")

\* on a machine that supports an instruction set of the list, all the calls
\* of the run have been made and have returned, by every thread
C17_Witness ==
    /\ SupportedLevels # {}
    /\ Sum(calls, Funs) = MaxCalls
    /\ \A t \in Threads : pc[t] = "returned"

\* the threads that are inside vcl_dispatch for f
InDispatch(f) == {t \in Threads : pc[t] = "vcl_dispatch" /\ fun[t] = f}

\* C18: the runs of vcl_dispatch for a function (each one run of vcl_select
\* and one call of instrset_detect), finished or in progress, are exactly the
\* calls that loaded the dispatcher from the slot; there is at least one once
\* the function has been called and at most one per thread; and a call that
\* starts after a run has stored into the slot does not add one.
C18_TrampolineRuns ==
    /\ [](\A f \in Funs :
              /\ selects[f] + Cardinality(InDispatch(f)) = trampolined[f]
              /\ detects[f] = selects[f]
              /\ calls[f] > 0 => trampolined[f] >= 1
              /\ trampolined[f] <= NumThreads)
    /\ [][\A f \in Funs :
              (selects[f] >= 1 /\ calls'[f] # calls[f])
                  => (trampolined'[f] = trampolined[f] /\ InDispatch(f)' = InDispatch(f))]_vars

\* every thread has run vcl_dispatch for one function, and a later call of
\* that function has gone straight to the variant
C18_Witness ==
    \E f \in Funs :
        /\ selects[f] = NumThreads
        /\ calls[f] > trampolined[f]
        /\ \E t \in Threads : pc[t] = "returned" /\ fun[t] = f /\ ~via[t]

\* C19: whenever Vec<N, T> names a vector type, N times the bits of T is 128,
\* 256 or 512, the key has one specialization only, and no specialization
\* with another key names the same vector type.
C19_VecTableWidthsInjective ==
    (lookup # NoLookup /\ lookup.type # Incomplete)
        => /\ lookup.N * BitsOf[lookup.T] \in {128, 256, 512}
           /\ \A e \in Vec_N_T :
                  /\ (e[1] = lookup.N /\ e[2] = lookup.T) => e[3] = lookup.type
                  /\ e[3] = lookup.type => (e[1] = lookup.N /\ e[2] = lookup.T)

\* Vec<8, int32_t> has been named and is Vec8i, a 256 bit vector
C19_Witness ==
    /\ lookup.N = 8 /\ lookup.T = "int32_t" /\ lookup.type = "Vec8i"
    /\ lookup.N * BitsOf[lookup.T] = 256

\* C20: for a list of 1 to 11 entries VCL_COUNT_ARGS is the number of
\* entries, and the function list has that length and that order: its k-th
\* function is vcl_<fun>_<k-th level>, the variant VCL_DISPATCHED defines in
\* the unit compiled for the k-th level.
C20_FunlistMatchesLevels ==
    (expansion # NoExpansion /\ Len(instrsets) \in 1..MaxArgs)
        => /\ expansion.count = Len(instrsets)
           /\ Len(expansion.funlist) = Len(instrsets)
           /\ \A k \in 1..Len(instrsets) :
                  /\ expansion.funlist[k] = <<"vcl", expansion.fun, instrsets[k]>>
                  /\ expansion.funlist[k] = VCL_DISPATCHED(expansion.fun, instrsets[k])
                  /\ Level(expansion.funlist[k]) = instrsets[k]

\* the dispatcher of myfunc has been expanded for the list of all 11 levels
C20_Witness ==
    /\ Len(instrsets) = MaxArgs
    /\ expansion.fun = "myfunc"
    /\ expansion.count = MaxArgs
    /\ expansion.funlist[1] = <<"vcl", "myfunc", 0>>
    /\ expansion.funlist[MaxArgs] = <<"vcl", "myfunc", LastInstrset>>

\* C21: a key has a boolean vector type in Vec_N_b exactly when it has a
\* vector type in Vec_N_T, and for a signed integer key the unsigned type of
\* the same width, with the same N, has the same boolean vector type.
C21_BoolTableSameKeysSignAgnostic ==
    lookup # NoLookup
        => /\ (lookup.btype # Incomplete) <=> (lookup.type # Incomplete)
           /\ (\E e \in Vec_N_b : e[1] = lookup.N /\ e[2] = lookup.T)
                  <=> (\E e \in Vec_N_T : e[1] = lookup.N /\ e[2] = lookup.T)
           /\ \A e \in Vec_N_b : (e[1] = lookup.N /\ e[2] = lookup.T) => e[3] = lookup.btype
           /\ lookup.T \in DOMAIN UnsignedOf
                  => TypeOf(Vec_N_b, lookup.N, UnsignedOf[lookup.T]) = lookup.btype

\* the boolean vector for <8, int16_t> has been named: Vec8sb, which is also
\* the boolean vector for <8, uint16_t>
C21_Witness ==
    /\ lookup.N = 8 /\ lookup.T = "int16_t"
    /\ lookup.type = "Vec8s" /\ lookup.btype = "Vec8sb"
    /\ TypeOf(Vec_N_b, 8, "uint16_t") = "Vec8sb"

====
